---- MODULE Spec2Model ----
(***************************************************************************)
(* Model of scripts/mario_expert.py: the agent locator, the hazard         *)
(* sensors, the rule chain of choose_action, the timed input actuator      *)
(* run_action and the play loop that drives them.                          *)
(***************************************************************************)
EXTENDS Integers, Sequences, FiniteSets, TLC

(* ---------------- SpriteMap (mario_expert.py 22-41) ---------------- *)
AIR == 0
MARIO == 1
GROUND == 10
USED_POWERUP_BLOCK == 10
MOVING_PLATFORM == 11
PIPE == 14
GOOMBA == 15
KOOPA == 16
FIGHTER_FLY == 18

(* ---------------- Action (mario_expert.py 44-52) ---------------- *)
RIGHT == 2
JUMP == 4
SPRINT == 5

(* ---------------- GameAreaAttributes (mario_expert.py 60-63) -------- *)
WIDTH == 20
HEIGHT == 16

(* MarioController.__init__: act_freq defaults to 1 and MarioExpert builds
   the controller with the default. *)
act_freq == 1

(* ---------------- MarioActions (mario_expert.py 66-84) -------------- *)
(* A plan is <<duration, buttons>>: action[0] is plan[1], action[1] is plan[2]. *)
SPRINT_AND_RUN == <<1, <<RIGHT, SPRINT>>>>
TAP_JUMP == <<1, <<JUMP>>>>
SHORT_JUMP == <<5, <<JUMP>>>>
MEDIUM_JUMP == <<10, <<JUMP>>>>
LONG_JUMP == <<15, <<JUMP>>>>

MarioActions == {SPRINT_AND_RUN, TAP_JUMP, SHORT_JUMP, MEDIUM_JUMP, LONG_JUMP}

(* Value of the locals that hold no plan / no grid / no position. *)
NoAction == <<0, <<>>>>
NoGrid == [y \in {} |-> 0]
NoPosition == <<-1, -1>>

(* ---------------- numpy indexing ---------------- *)
(* game_area[i] on an axis of size n: i in [0,n) reads i, i in [-n,0) wraps
   to i+n, anything else raises IndexError (modelled as -1). *)
NumpyIndex(i, n) ==
    IF i >= 0 /\ i < n THEN i
    ELSE IF i < 0 /\ i >= -n THEN i + n
    ELSE -1

(* game_area[r][c] raises IndexError *)
Raises(r, c) == NumpyIndex(r, HEIGHT) = -1 \/ NumpyIndex(c, WIDTH) = -1

(* game_area[r][c] when it does not raise *)
Cell(game_area, r, c) == game_area[NumpyIndex(r, HEIGHT)][NumpyIndex(c, WIDTH)]

(* ---------------- get_mario_position (184-196) ---------------- *)
(* The inner loop, for x in range(WIDTH): the column of the first MARIO
   cell of row y at or after column x, or -1. *)
RECURSIVE ScanColumns(_, _, _)
ScanColumns(game_area, y, x) ==
    IF x >= WIDTH THEN -1
    ELSE IF game_area[y][x] = MARIO THEN x
    ELSE ScanColumns(game_area, y, x + 1)

(* The outer loop, for y in range(HEIGHT): the index y*WIDTH+x of the first
   MARIO cell in row-major order, or -1 when both loops run to their end. *)
RECURSIVE ScanForMario(_, _)
ScanForMario(game_area, y) ==
    IF y >= HEIGHT THEN -1
    ELSE LET x == ScanColumns(game_area, y, 0) IN
         IF x >= 0 THEN y * WIDTH + x
         ELSE ScanForMario(game_area, y + 1)

(* faulty variant: the locator without the +1 on either coordinate *)
get_mario_position_cell(game_area) ==
    LET k == ScanForMario(game_area, 0) IN
    IF k >= 0 THEN <<k % WIDTH, k \div WIDTH>>
    ELSE <<WIDTH - 1, HEIGHT - 1>>

(* return (x + 1, y + 1) at the first match; after the loops, return (x, y)
   with the loop variables' last values. *)
get_mario_position(game_area) ==
    LET k == ScanForMario(game_area, 0) IN
    IF k >= 0 THEN <<(k % WIDTH) + 1, (k \div WIDTH) + 1>>
    ELSE <<WIDTH - 1, HEIGHT - 1>>

(* ---------------- sensors (198-272) ---------------- *)
(* The loop shared by is_enemy_ahead, is_fighter_fly_ahead and
   is_obstacle_ahead: for x in range(distance_check), for y in
   range(height_check), skip the row when mario_y+y >= HEIGHT or
   mario_y-y < 0, else read game_area[mario_y-y][mario_x+x].  k = x*h + y.
   Results: "True", "False" or "IndexError". *)
RECURSIVE ScanAhead(_, _, _, _, _, _)
ScanAhead(game_area, pos, distance_check, height_check, targets, k) ==
    IF k >= distance_check * height_check THEN "False"
    ELSE LET x == k \div height_check
             y == k % height_check
         IN IF (pos[2] + y) >= HEIGHT \/ (pos[2] - y) < 0
            THEN ScanAhead(game_area, pos, distance_check, height_check, targets, k + 1)
            ELSE IF Raises(pos[2] - y, pos[1] + x) THEN "IndexError"
            ELSE IF Cell(game_area, pos[2] - y, pos[1] + x) \in targets THEN "True"
            ELSE ScanAhead(game_area, pos, distance_check, height_check, targets, k + 1)

is_enemy_ahead(game_area, distance_check, height_check) ==
    ScanAhead(game_area, get_mario_position(game_area), distance_check,
              height_check, {GOOMBA, KOOPA}, 0)

is_fighter_fly_ahead(game_area, distance_check, height_check) ==
    ScanAhead(game_area, get_mario_position(game_area), distance_check,
              height_check, {FIGHTER_FLY}, 0)

is_obstacle_ahead(game_area, distance_check, height_check) ==
    ScanAhead(game_area, get_mario_position(game_area), distance_check,
              height_check, {USED_POWERUP_BLOCK, PIPE, MOVING_PLATFORM}, 0)

(* The loop shared by is_pipe_ahead and is_pit_ahead: one fixed row, no
   bounds test at all. *)
RECURSIVE ScanRow(_, _, _, _, _, _)
ScanRow(game_area, row, col, distance_check, targets, x) ==
    IF x >= distance_check THEN "False"
    ELSE IF Raises(row, col + x) THEN "IndexError"
    ELSE IF Cell(game_area, row, col + x) \in targets THEN "True"
    ELSE ScanRow(game_area, row, col, distance_check, targets, x + 1)

is_pipe_ahead(game_area, distance_check, height_check) ==
    LET pos == get_mario_position(game_area) IN
    ScanRow(game_area, pos[2] - height_check, pos[1], distance_check, {PIPE}, 0)

is_pit_ahead(game_area, distance_check) ==
    LET pos == get_mario_position(game_area) IN
    ScanRow(game_area, HEIGHT - 1, pos[1], distance_check, {AIR}, 0)

(* ---------------- choose_action (274-308) ---------------- *)
Return(plan) == [exception |-> "none", value |-> plan]
Raise(e) == [exception |-> e, value |-> NoAction]

(* "a and b" of two sensor calls: b is evaluated only when a is True *)
AndThen(a, b) == IF a = "True" THEN b ELSE a

(* if guard: return plan, else the rest; an IndexError of the guard leaves
   choose_action *)
Rule(guard, plan, rest) ==
    IF guard = "IndexError" THEN Raise("IndexError")
    ELSE IF guard = "True" THEN Return(plan)
    ELSE rest

(* faulty variant: the combined rule tried after the pit and obstacle rules *)
choose_action_reordered(game_area) ==
    Rule(is_pipe_ahead(game_area, 2, 0), SHORT_JUMP,
    Rule(is_fighter_fly_ahead(game_area, 2, 3), SPRINT_AND_RUN,
    Rule(is_enemy_ahead(game_area, 3, 2), TAP_JUMP,
    Rule(is_pit_ahead(game_area, 3), TAP_JUMP,
    Rule(is_obstacle_ahead(game_area, 4, 2), MEDIUM_JUMP,
    Rule(AndThen(is_enemy_ahead(game_area, 6, 6),
                 is_obstacle_ahead(game_area, 5, 6)), LONG_JUMP,
    Return(SPRINT_AND_RUN)))))))

choose_action(game_area) ==
    Rule(is_pipe_ahead(game_area, 2, 0), SHORT_JUMP,
    Rule(is_fighter_fly_ahead(game_area, 2, 3), SPRINT_AND_RUN,
    Rule(is_enemy_ahead(game_area, 3, 2), TAP_JUMP,
    Rule(AndThen(is_enemy_ahead(game_area, 6, 6),
                 is_obstacle_ahead(game_area, 5, 6)), LONG_JUMP,
    Rule(is_pit_ahead(game_area, 3), TAP_JUMP,
    Rule(is_obstacle_ahead(game_area, 4, 2), MEDIUM_JUMP,
    Return(SPRINT_AND_RUN)))))))

(* ---------------- the grids game_area() may return ---------------- *)
(* Sprites are placed relative to the cell the locator reports, so that the
   sensor windows are exercised at every placement of the agent: an enemy up
   to MaxAhead columns ahead and MaxUp rows above, an obstacle up to MaxAhead
   columns ahead in the agent's row, or a floor with no ground (a pit). *)
MaxAhead == 6
MaxUp == 1

(* top-left cell of the agent sprite: mid-screen on the ground, in the top
   row, in the two bottom rows, and in the right-hand columns *)
MarioSpots ==
    {<<9, 13>>, <<9, 0>>, <<9, 14>>, <<9, 15>>,
     <<14, 13>>, <<17, 13>>, <<18, 13>>}

(* size 1: a single agent cell; size 2: the 2x2 agent sprite; size 0: no
   agent cell at all *)
Placements ==
    {[x |-> s[1], y |-> s[2], size |-> 1] : s \in MarioSpots}
    \cup {[x |-> 9, y |-> 13, size |-> 2]}
    \cup {[x |-> WIDTH - 2, y |-> HEIGHT - 2, size |-> 0]}

NoSprite == [code |-> AIR, dx |-> 0, dy |-> 0]
Pit == [code |-> AIR, dx |-> 1, dy |-> 0]

Enemies ==
    {NoSprite} \cup [code : {GOOMBA, KOOPA, FIGHTER_FLY}, dx : 0..MaxAhead, dy : 0..MaxUp]
Obstacles ==
    {NoSprite, Pit} \cup [code : {PIPE, MOVING_PLATFORM}, dx : 0..MaxAhead, dy : {0}]

IsAt(m, s, x, y) == s.code # AIR /\ x = m.x + 1 + s.dx /\ y = m.y + 1 - s.dy

MakeGrid(m, e, o) ==
    [y \in 0..(HEIGHT - 1) |-> [x \in 0..(WIDTH - 1) |->
        IF x >= m.x /\ x < m.x + m.size /\ y >= m.y /\ y < m.y + m.size THEN MARIO
        ELSE IF IsAt(m, e, x, y) THEN e.code
        ELSE IF IsAt(m, o, x, y) THEN o.code
        ELSE IF y = HEIGHT - 1 /\ o # Pit THEN GROUND
        ELSE AIR]]

(* ---------------- state ---------------- *)
VARIABLES
    pc,             \* position of the single thread of control
    game_over,      \* environment.get_game_over()
    log,            \* pyboy calls of the current decision cycle, in order
    game_area,      \* choose_action's local: the grid it sampled
    mario_position, \* the sensors' local (mario_x_position, mario_y_position)
    action,         \* step's local: the plan returned by choose_action
    exception,      \* the exception that left play, or "none"
    duration,       \* run_action's outer loop variable
    i               \* position in the current inner for loop

vars == <<pc, game_over, log, game_area, mario_position, action, exception,
          duration, i>>

(* pyboy.send_input(valid_actions[a]) *)
Press(a) == [op |-> "press", button |-> a, over |-> game_over]
(* pyboy.send_input(release_button[a]) *)
Release(a) == [op |-> "release", button |-> a, over |-> game_over]
(* pyboy.tick(): the emulator advances one frame, after which the game may
   be over; `over` is get_game_over() after the frame *)
Tick(over) == [op |-> "tick", button |-> 0, over |-> over]

(* MarioExpert.__init__ (174-182) *)
Init ==
    /\ pc = "play"
    /\ game_over = FALSE
    /\ log = <<>>
    /\ game_area = NoGrid
    /\ mario_position = NoPosition
    /\ action = NoAction
    /\ exception = "none"
    /\ duration = 0
    /\ i = 0

(* play, 327-332: reset the environment, start the video *)
Play_reset ==
    /\ pc = "play"
    /\ pc' = "while"
    /\ game_over' = FALSE
    /\ UNCHANGED <<log, game_area, mario_position, action, exception, duration, i>>

(* play, 334-338: the loop test passes, the frame is written, step() is
   called; a new decision cycle starts *)
Play_while ==
    /\ pc = "while"
    /\ ~game_over
    /\ pc' = "step"
    /\ log' = <<>>
    /\ action' = NoAction
    /\ UNCHANGED <<game_over, game_area, mario_position, exception, duration, i>>

(* play, 334 and 340-346: the loop test fails, the results are saved *)
Play_finish ==
    /\ pc = "while"
    /\ game_over
    /\ pc' = "done"
    /\ UNCHANGED <<game_over, log, game_area, mario_position, action,
                   exception, duration, i>>

(* choose_action, 275-277: game_area = self.environment.game_area() *)
Step_game_area ==
    /\ pc = "step"
    /\ \E m \in Placements, e \in Enemies, o \in Obstacles :
         game_area' = MakeGrid(m, e, o)
    /\ pc' = "choose_action"
    /\ UNCHANGED <<game_over, log, mario_position, action, exception, duration, i>>

(* choose_action, 279-308, and step, 318: action = self.choose_action();
   an IndexError is caught nowhere and leaves play *)
Step_choose_action ==
    /\ pc = "choose_action"
    /\ LET r == choose_action(game_area)
       IN /\ mario_position' = get_mario_position(game_area)
          /\ action' = r.value
          /\ exception' = r.exception
          /\ pc' = IF r.exception = "none" THEN "run_action" ELSE "crashed"
    /\ UNCHANGED <<game_over, log, game_area, duration, i>>

(* run_action, 144: press RIGHT; choose_action's locals are gone *)
RunAction_right ==
    /\ pc = "run_action"
    /\ log' = Append(log, Press(RIGHT))
    /\ pc' = "sprint"
    /\ game_area' = NoGrid
    /\ mario_position' = NoPosition
    /\ UNCHANGED <<game_over, action, exception, duration, i>>

(* run_action, 146: press SPRINT *)
RunAction_sprint ==
    /\ pc = "sprint"
    /\ log' = Append(log, Press(SPRINT))
    /\ pc' = "tick0"
    /\ UNCHANGED <<game_over, game_area, mario_position, action, exception, duration, i>>

(* faulty variant: run_action without the tick of line 148 *)
RunAction_tick0_skipped ==
    /\ pc = "tick0"
    /\ pc' = "for"
    /\ duration' = 0
    /\ UNCHANGED <<game_over, log, game_area, mario_position, action, exception, i>>

(* run_action, 148: the tick before the duration loop *)
RunAction_tick0 ==
    /\ pc = "tick0"
    /\ \E over \in {game_over, TRUE} :
         /\ game_over' = over
         /\ log' = Append(log, Tick(over))
    /\ pc' = "for"
    /\ duration' = 0
    /\ UNCHANGED <<game_area, mario_position, action, exception, i>>

(* faulty variant: the duration loop left as soon as the game is over *)
RunAction_for_until_over ==
    /\ pc = "for"
    /\ duration < action[1]
    /\ IF game_over
       THEN duration' = action[1] /\ pc' = "for" /\ i' = i
       ELSE duration' = duration + 1 /\ pc' = "press" /\ i' = 0
    /\ UNCHANGED <<game_over, log, game_area, mario_position, action, exception>>

(* run_action, 150: for duration in range(action[0]), next iteration.
   `duration` here counts the iterations begun. *)
RunAction_for ==
    /\ pc = "for"
    /\ duration < action[1]
    /\ duration' = duration + 1
    /\ i' = 0
    /\ pc' = "press"
    /\ UNCHANGED <<game_over, log, game_area, mario_position, action, exception>>

(* run_action, 150: the range is exhausted, run_action and step return and
   run_action's locals are gone *)
RunAction_return ==
    /\ pc = "for"
    /\ duration >= action[1]
    /\ pc' = "while"
    /\ duration' = 0
    /\ UNCHANGED <<game_over, log, game_area, mario_position, action, exception, i>>

(* faulty variant: the plan's buttons pressed in the first iteration only *)
RunAction_press_once ==
    /\ pc = "press"
    /\ log' = IF duration = 1 THEN Append(log, Press(action[2][i + 1])) ELSE log
    /\ IF i + 1 < Len(action[2])
       THEN i' = i + 1 /\ pc' = "press"
       ELSE i' = 0 /\ pc' = "tick"
    /\ UNCHANGED <<game_over, game_area, mario_position, action, exception, duration>>

(* run_action, 151-152: for a in action[1]: send the press of a *)
RunAction_press ==
    /\ pc = "press"
    /\ log' = Append(log, Press(action[2][i + 1]))
    /\ IF i + 1 < Len(action[2])
       THEN i' = i + 1 /\ pc' = "press"
       ELSE i' = 0 /\ pc' = "tick"
    /\ UNCHANGED <<game_over, game_area, mario_position, action, exception, duration>>

(* run_action, 154-155: for _ in range(act_freq): tick *)
RunAction_tick ==
    /\ pc = "tick"
    /\ \E over \in {game_over, TRUE} :
         /\ game_over' = over
         /\ log' = Append(log, Tick(over))
    /\ IF i + 1 < act_freq
       THEN i' = i + 1 /\ pc' = "tick"
       ELSE i' = 0 /\ pc' = "release"
    /\ UNCHANGED <<game_area, mario_position, action, exception, duration>>

(* faulty variant: the release loop sends nothing *)
RunAction_release_dropped ==
    /\ pc = "release"
    /\ IF i + 1 < Len(action[2])
       THEN i' = i + 1 /\ pc' = "release"
       ELSE i' = 0 /\ pc' = "for"
    /\ UNCHANGED <<game_over, log, game_area, mario_position, action, exception, duration>>

(* faulty variant: the release loop releases RIGHT and SPRINT together with the
   plan's buttons *)
RunAction_release_all ==
    /\ pc = "release"
    /\ log' = log \o <<Release(action[2][i + 1]), Release(RIGHT), Release(SPRINT)>>
    /\ IF i + 1 < Len(action[2])
       THEN i' = i + 1 /\ pc' = "release"
       ELSE i' = 0 /\ pc' = "for"
    /\ UNCHANGED <<game_over, game_area, mario_position, action, exception, duration>>

(* run_action, 157-158: for a in action[1]: send the release of a; this loop
   is inside the duration loop *)
RunAction_release ==
    /\ pc = "release"
    /\ log' = Append(log, Release(action[2][i + 1]))
    /\ IF i + 1 < Len(action[2])
       THEN i' = i + 1 /\ pc' = "release"
       ELSE i' = 0 /\ pc' = "for"
    /\ UNCHANGED <<game_over, game_area, mario_position, action, exception, duration>>

Next ==
    \/ Play_reset
    \/ Play_while
    \/ Play_finish
    \/ Step_game_area
    \/ Step_choose_action
    \/ RunAction_right
    \/ RunAction_sprint
    \/ RunAction_tick0
    \/ RunAction_for
    \/ RunAction_return
    \/ RunAction_press
    \/ RunAction_tick
    \/ RunAction_release

Spec == Init /\ [][Next]_vars

(* ======================= observations on the log ======================= *)
Buttons == {RIGHT, JUMP, SPRINT}
Range(seq) == {seq[k] : k \in DOMAIN seq}

(* run_action and step have returned to play's loop test *)
Returned == pc \in {"while", "done"} /\ action # NoAction

(* buttons whose last input event in l is a press *)
HeldAfter(l) ==
    {b \in Buttons :
        \E k \in DOMAIN l :
            /\ l[k].op = "press" /\ l[k].button = b
            /\ \A j \in DOMAIN l : j > k => ~(l[j].op = "release" /\ l[j].button = b)}

Ticks(l) == Cardinality({k \in DOMAIN l : l[k].op = "tick"})
Releases(l, b) == Cardinality({k \in DOMAIN l : l[k].op = "release" /\ l[k].button = b})

(* the ticks of the duration loop: every tick after RIGHT, SPRINT, tick *)
LoopTicks(l) == {k \in DOMAIN l : k > 3 /\ l[k].op = "tick"}

(* ============================== C1 ============================== *)
(* C1 as stated: when run_action returns, no button pressed during the call
   is still held. *)
C1_NoButtonHeldOnReturn ==
    Returned => HeldAfter(log) = {}

(* C1 amended: when run_action returns, every button of the plan has been
   released, and RIGHT and SPRINT, pressed at its start, are still held
   unless the plan itself contains them. *)
C1_OnlyMaintenanceHeldOnReturn ==
    Returned => HeldAfter(log) = {RIGHT, SPRINT} \ Range(action[2])

C1_Witness ==
    Returned /\ action = LONG_JUMP /\ HeldAfter(log) = {RIGHT, SPRINT}

(* ============================== C2 ============================== *)
(* C2 as stated: one call of run_action(plan) makes exactly plan.duration
   calls of pyboy.tick(). *)
C2_TicksEqualDuration ==
    Returned => Ticks(log) = action[1]

(* C2 amended: one call of run_action(plan) makes exactly
   plan.duration * act_freq + 1 calls of pyboy.tick(): one before the
   duration loop and act_freq in each iteration. *)
C2_TicksEqualDurationPlusOne ==
    Returned => Ticks(log) = action[1] * act_freq + 1

C2_Witness ==
    Returned /\ action = SHORT_JUMP /\ Ticks(log) = 6

(* ============================== C3 ============================== *)
(* C3 as stated: with duration > 1 no release of a plan button is sent
   before the last tick of the duration loop, and each plan button is
   released exactly once, after the loop. *)
C3_NoReleaseBetweenIterations ==
    (log # <<>> /\ action[1] > 1) =>
        /\ \A j, k \in DOMAIN log :
              (j < k /\ log[j].op = "release" /\ log[j].button \in Range(action[2]))
                  => log[k].op # "tick"
        /\ Returned => \A b \in Range(action[2]) : Releases(log, b) = 1

(* C3 amended: every plan button is held at every tick of the duration
   loop (it is pressed before each of them), but a release of each plan
   button is sent after every iteration's tick, duration releases in all,
   the last one after the last tick. *)
C3_PressedAtEveryLoopTick ==
    log # <<>> =>
        /\ \A k \in LoopTicks(log) :
              Range(action[2]) \subseteq HeldAfter(SubSeq(log, 1, k - 1))
        /\ Returned =>
              /\ \A b \in Range(action[2]) : Releases(log, b) = action[1]
              /\ log[Len(log)].op = "release"

C3_Witness ==
    Returned /\ action = SHORT_JUMP /\ Releases(log, JUMP) = 5

(* ============================== C4 ============================== *)
(* C4 as stated: once a tick of the duration loop leaves the game over,
   run_action sends no further tick. *)
C4_NoTickAfterTerminal ==
    \A j, k \in LoopTicks(log) : ~(j < k /\ log[j].over)

(* C4 amended: run_action never consults the terminal condition: when the
   game becomes over at any tick of the call, the call still sends all of
   its duration * act_freq + 1 ticks and the release after every iteration,
   and RIGHT and SPRINT stay held as in any other call; play sees the
   terminal condition only at its next loop test. *)
C4_RunsToCompletionWhenTerminal ==
    /\ (Returned /\ game_over) =>
          /\ Ticks(log) = action[1] * act_freq + 1
          /\ \A b \in Range(action[2]) : Releases(log, b) = action[1]
          /\ HeldAfter(log) = {RIGHT, SPRINT} \ Range(action[2])
    /\ pc = "done" => (game_over /\ Ticks(log) = action[1] * act_freq + 1)

C4_Witness ==
    /\ Returned /\ action = SHORT_JUMP
    /\ ~log[8].over /\ log[11].op = "tick" /\ log[11].over
    /\ Cardinality({k \in LoopTicks(log) : k > 11}) = 2

(* ============================== C10 ============================== *)
(* C10 as stated: for every plan, the default one included, no release of
   RIGHT or SPRINT is ever sent by run_action. *)
C10_MaintenanceNeverReleased ==
    \A k \in DOMAIN log : ~(log[k].op = "release" /\ log[k].button \in {RIGHT, SPRINT})

(* C10 amended: for the four jump plans no release of RIGHT or SPRINT is
   sent, so both stay held from their press to the return; the default
   SPRINT_AND_RUN plan has RIGHT and SPRINT as its own buttons, and its
   release loop releases both. *)
C10_OnlyDefaultPlanReleasesMaintenance ==
    /\ \A k \in DOMAIN log :
          (log[k].op = "release" /\ log[k].button \in {RIGHT, SPRINT})
              => action = SPRINT_AND_RUN
    /\ (Len(log) >= 2 /\ action # SPRINT_AND_RUN) => {RIGHT, SPRINT} \subseteq HeldAfter(log)
    /\ (Returned /\ action = SPRINT_AND_RUN) =>
          Releases(log, RIGHT) = 1 /\ Releases(log, SPRINT) = 1

C10_Witness ==
    Returned /\ action = SPRINT_AND_RUN /\ Releases(log, RIGHT) = 1

(* ===================== observations on the grid ===================== *)
(* choose_action has sampled a grid that is still in scope *)
Sampled == pc \in {"choose_action", "run_action", "crashed"}
(* choose_action has returned or raised *)
Chosen == pc \in {"run_action", "crashed"}

Cells == (0..(WIDTH - 1)) \X (0..(HEIGHT - 1))
MarioCells(g) == {c \in Cells : g[c[2]][c[1]] = MARIO}

(* c is the first agent cell of g in row-major ascending order *)
IsFirstMarioCell(g, c) ==
    /\ c \in MarioCells(g)
    /\ \A d \in MarioCells(g) : ~(d[2] < c[2] \/ (d[2] = c[2] /\ d[1] < c[1]))

(* ============================== C5 ============================== *)
(* C5 as stated: with an agent cell in the grid, get_mario_position returns
   the coordinates (x, y) of the first agent cell in row-major order, inside
   [0, WIDTH) x [0, HEIGHT). *)
C5_ReturnsAgentCell ==
    Chosen => \A c \in Cells :
        IsFirstMarioCell(game_area, c) => mario_position = <<c[1], c[2]>>

(* C5 amended: with an agent cell in the grid, get_mario_position returns
   (x + 1, y + 1) for the first agent cell (x, y) in row-major order: the
   cell diagonally below and to the right, with x + 1 in [1, WIDTH] and
   y + 1 in [1, HEIGHT]. *)
C5_ReturnsAgentCellPlusOne ==
    Chosen => \A c \in Cells :
        IsFirstMarioCell(game_area, c) =>
            /\ mario_position = <<c[1] + 1, c[2] + 1>>
            /\ mario_position[1] \in 1..WIDTH
            /\ mario_position[2] \in 1..HEIGHT

C5_Witness ==
    /\ Chosen
    /\ MarioCells(game_area) = {<<9, 13>>}
    /\ mario_position = <<10, 14>>

(* ============================== C6 ============================== *)
(* C6 as stated: with no agent cell in the grid, get_mario_position fails
   with AgentNotFound: no position is returned and no plan is chosen from
   one. *)
C6_AgentNotFound ==
    (Chosen /\ MarioCells(game_area) = {}) =>
        /\ exception = "AgentNotFound"
        /\ mario_position = NoPosition
        /\ action = NoAction

(* ============================== C7 ============================== *)
(* some cell that the window of a (distance, height) sensor covers, rows
   mario_y - y and columns mario_x + x, lies in the grid and holds a target *)
InWindow(g, pos, distance, height, targets) ==
    \E x \in 0..(distance - 1), y \in 0..(height - 1) :
        /\ pos[1] + x \in 0..(WIDTH - 1)
        /\ pos[2] - y \in 0..(HEIGHT - 1)
        /\ g[pos[2] - y][pos[1] + x] \in targets

(* C7 as stated: a ground enemy in the (6, 6) window and an obstacle in the
   (5, 6) window of the located position make choose_action return
   LONG_JUMP, whatever else the grid holds. *)
C7_LongJumpWhateverElse ==
    (/\ Chosen
     /\ InWindow(game_area, mario_position, 6, 6, {GOOMBA, KOOPA})
     /\ InWindow(game_area, mario_position, 5, 6,
                 {USED_POWERUP_BLOCK, PIPE, MOVING_PLATFORM}))
        => action = LONG_JUMP

(* C7 amended: choose_action returns LONG_JUMP exactly when
   is_pipe_ahead(2), is_fighter_fly_ahead(2, 3) and is_enemy_ahead(3, 2)
   return False and is_enemy_ahead(6, 6) and is_obstacle_ahead(5, 6) both
   return True; when both of these are True but an earlier guard is True,
   the earlier rule's plan is returned instead (SHORT_JUMP for the pipe,
   SPRINT_AND_RUN for the fighter fly, TAP_JUMP for the near enemy). *)
C7_LongJumpUnlessPreempted ==
    Chosen =>
        LET pipe == is_pipe_ahead(game_area, 2, 0)
            fly == is_fighter_fly_ahead(game_area, 2, 3)
            near == is_enemy_ahead(game_area, 3, 2)
            both == /\ is_enemy_ahead(game_area, 6, 6) = "True"
                    /\ is_obstacle_ahead(game_area, 5, 6) = "True"
        IN /\ action = LONG_JUMP <=>
                (pipe = "False" /\ fly = "False" /\ near = "False" /\ both)
           /\ (both /\ pipe = "True") => action = SHORT_JUMP
           /\ (both /\ pipe = "False" /\ fly = "True") => action = SPRINT_AND_RUN
           /\ (both /\ pipe = "False" /\ fly = "False" /\ near = "True")
                 => action = TAP_JUMP

C7_Witness ==
    /\ Chosen /\ action = LONG_JUMP
    /\ InWindow(game_area, mario_position, 6, 6, {GOOMBA, KOOPA})
    /\ InWindow(game_area, mario_position, 4, 2,
                {USED_POWERUP_BLOCK, PIPE, MOVING_PLATFORM})

(* ============================== C8 ============================== *)
(* a sensor's answer when it reads exactly the in-bounds cells of its window *)
Clipped(found) == IF found THEN "True" ELSE "False"

(* C8 as stated: with the windows choose_action uses, every sensor returns a
   boolean (no index outside the grid is read) that is true exactly when an
   in-bounds cell of its window holds a target. *)
C8_SensorsClipToGrid ==
    Chosen =>
        LET g == game_area
            pos == get_mario_position(game_area)
            enemy == {GOOMBA, KOOPA}
            obstacle == {USED_POWERUP_BLOCK, PIPE, MOVING_PLATFORM}
        IN /\ is_pipe_ahead(g, 2, 0) = Clipped(InWindow(g, pos, 2, 1, {PIPE}))
           /\ is_fighter_fly_ahead(g, 2, 3) = Clipped(InWindow(g, pos, 2, 3, {FIGHTER_FLY}))
           /\ is_enemy_ahead(g, 3, 2) = Clipped(InWindow(g, pos, 3, 2, enemy))
           /\ is_enemy_ahead(g, 6, 6) = Clipped(InWindow(g, pos, 6, 6, enemy))
           /\ is_obstacle_ahead(g, 5, 6) = Clipped(InWindow(g, pos, 5, 6, obstacle))
           /\ is_obstacle_ahead(g, 4, 2) = Clipped(InWindow(g, pos, 4, 2, obstacle))
           /\ is_pit_ahead(g, 3) =
                 Clipped(InWindow(g, <<pos[1], HEIGHT - 1>>, 3, 1, {AIR}))

(* ============================== C9 ============================== *)
(* C9 as stated: every decision cycle samples one grid, only while the game
   is not over, gets exactly one plan from it, and run_action executes that
   plan once and to completion before the next grid is sampled. *)
C9_OnePlanPerCycle ==
    /\ Sampled => ~game_over
    /\ Chosen => (exception = "none" /\ action \in MarioActions)
    /\ pc \in {"sprint", "tick0", "for", "press", "tick", "release"} =>
          (action \in MarioActions /\ game_area = NoGrid)
    /\ Returned =>
          /\ Ticks(log) = action[1] * act_freq + 1
          /\ \A b \in Range(action[2]) : Releases(log, b) = action[1]

====
